---- MODULE Spec2Model ----
(***************************************************************************)
(* Model of scripts/diarize.py: the self-contained (speechbrain) speaker   *)
(* diarization pipeline.                                                   *)
(*                                                                         *)
(*   diarize_speechbrain : windowing loop -> estimate_num_speakers ->      *)
(*                         clustering (spectral, agglomerative fallback)   *)
(*                         -> merge_segments                               *)
(*   main                : prints the segments or an error object          *)
(*                                                                         *)
(* Units.  Sample positions are integers.  start_time/end_time are Python  *)
(* floats in seconds; here they are counted in ticks of 0.1 ms so that     *)
(* round(x, 3) is a real conversion (ticks -> milliseconds).  Output       *)
(* segment times are in milliseconds.                                      *)
(*                                                                         *)
(* External libraries (ECAPA-TDNN embedding, cosine_similarity, eigvalsh,  *)
(* SpectralClustering, AgglomerativeClustering) are nondeterministic:      *)
(* each either raises or returns a value of the documented shape.          *)
(***************************************************************************)
EXTENDS Integers, Sequences, FiniteSets, TLC

VARIABLES pc, total_samples, num_speakers_arg, start_sample, embeddings,
          timestamps, num_speakers, labels, segments, raised, calls, est,
          exit_code, stdout

vars == <<pc, total_samples, num_speakers_arg, start_sample, embeddings,
          timestamps, num_speakers, labels, segments, raised, calls, est,
          exit_code, stdout>>

----------------------------------------------------------------------------
(* Bounds of the model *)

\* total_samples ranges over 0 .. MaxHops hops (plus a partial hop)
MaxHops == 5
\* caller-supplied --num-speakers ranges over 1 .. MaxNumSpeakersArg
MaxNumSpeakersArg == 3
\* direct calls of estimate_num_speakers: 0 .. MaxEmbeddings embeddings
MaxEmbeddings == 5
\* direct calls of estimate_num_speakers: max_speakers in -1 .. MaxMaxSpeakers
MaxMaxSpeakers == 4

\* values an eigenvalue of the similarity matrix may take in the model
EigSet == {-1, 0, 1, 2, 6}

----------------------------------------------------------------------------
(* Program constants *)

sample_rate == 16000
window_size_ms == 1500
hop_size_ms == 750
default_max_speakers == 8

window_samples == (window_size_ms * sample_rate) \div 1000
hop_samples == (hop_size_ms * sample_rate) \div 1000

----------------------------------------------------------------------------
(* Helpers *)

Min(a, b) == IF a < b THEN a ELSE b
Max(a, b) == IF a > b THEN a ELSE b

\* sample index / sample_rate, in ticks of 0.1 ms
sample_time(s) == (s * 10000) \div sample_rate

\* the embedding of waveform[:, start:end]; abstracted to the range it was cut from
embed(start, end) == [from |-> start, to |-> end]

NoException == [type |-> "", context |-> ""]

\* an entry of the log of library calls; n_clusters is 0 where it does not apply
Call(name, n_clusters) == [name |-> name, n_clusters |-> n_clusters]

----------------------------------------------------------------------------
(* merge_segments *)

\* round(x, 3): x in ticks of 0.1 ms, result in ms (ties to even)
Round3(t) ==
    LET q == t \div 10
        r == t % 10
    IN  IF r > 5 \/ (r = 5 /\ q % 2 = 1) THEN q + 1 ELSE q

RECURSIVE Digits(_)
Digits(n) == IF n < 10 THEN <<n>> ELSE Digits(n \div 10) \o <<n % 10>>

\* f"SPEAKER_{label:02d}"
SpeakerIdUnpadded(label) == <<"SPEAKER_">> \o Digits(label)
SpeakerId(label) ==
    <<"SPEAKER_">> \o (IF label < 10 THEN <<0, label>> ELSE Digits(label))

Segment(start, end, speaker) ==
    [start |-> Round3(start), end |-> Round3(end), speaker |-> SpeakerId(speaker)]

\* labels[i] == current_speaker
NeverSameSpeaker(label, current_speaker) == FALSE
SameSpeaker(label, current_speaker) == label = current_speaker

\* the "extend current segment" branch: current_end = timestamps[i][1]
KeepEnd(current_end, window_end) == current_end
ExtendEnd(current_end, window_end) == window_end

\* the loop "for i in range(1, len(timestamps))"; i is the 1-based index
RECURSIVE MergeLoop(_, _, _, _, _, _, _)
MergeLoop(ts, ls, i, segs, current_speaker, current_start, current_end) ==
    IF i > Len(ts)
    THEN segs \o <<Segment(current_start, current_end, current_speaker)>>
    ELSE IF SameSpeaker(ls[i], current_speaker)
         THEN MergeLoop(ts, ls, i + 1, segs, current_speaker, current_start,
                        ExtendEnd(current_end, ts[i][2]))
         ELSE MergeLoop(ts, ls, i + 1,
                        segs \o <<Segment(current_start, current_end, current_speaker)>>,
                        ls[i], ts[i][1], ts[i][2])

merge_segments(ts, ls) ==
    IF ts = <<>> THEN <<>>
    ELSE MergeLoop(ts, ls, 2, <<>>, ls[1], ts[1][1], ts[1][2])

----------------------------------------------------------------------------
(* estimate_num_speakers *)

\* np.sort(eigenvalues): insertion into an ascending sequence
RECURSIVE InsertAsc(_, _)
InsertAsc(x, s) ==
    IF s = <<>> THEN <<x>>
    ELSE IF x <= Head(s) THEN <<x>> \o s
    ELSE <<Head(s)>> \o InsertAsc(x, Tail(s))

RECURSIVE SortAsc(_)
SortAsc(s) == IF s = <<>> THEN <<>> ELSE InsertAsc(Head(s), SortAsc(Tail(s)))

\* [::-1]
Reverse(s) == [i \in 1..Len(s) |-> s[Len(s) + 1 - i]]

\* a gap ratio: float('inf'), or the quotient num/den with den > 0
InfGap == [inf |-> TRUE, num |-> 0, den |-> 1]

\* gap for loop index i (0-based as in the code); ev is 1-based, so
\* eigenvalues[i] is ev[i + 1] and eigenvalues[i-1] is ev[i]
GapAtDividing(ev, i) ==
    IF ev[i + 1] > 0
    THEN [inf |-> FALSE, num |-> ev[i], den |-> ev[i + 1]]
    ELSE [inf |-> FALSE, num |-> 0, den |-> 1]
GapAt(ev, i) ==
    IF ev[i + 1] > 0
    THEN [inf |-> FALSE, num |-> ev[i], den |-> ev[i + 1]]
    ELSE InfGap

\* a > b on gap ratios
GapGreater(a, b) ==
    IF a.inf THEN ~b.inf
    ELSE IF b.inf THEN FALSE
    ELSE a.num * b.den > b.num * a.den

\* np.argmax(gaps): 0-based position of the first maximum
RECURSIVE ArgmaxFrom(_, _, _)
ArgmaxFrom(gaps, j, best) ==
    IF j > Len(gaps) THEN best - 1
    ELSE IF GapGreater(gaps[j], gaps[best]) THEN ArgmaxFrom(gaps, j + 1, j)
    ELSE ArgmaxFrom(gaps, j + 1, best)

argmax(gaps) == ArgmaxFrom(gaps, 2, 1)

\* max(2, min(num_speakers, max_speakers))
ClampUpperOnly(v, m) == Min(v, m)
Clamp(v, m) == Max(2, Min(v, m))

\* The function's outcome: raised (an exception leaves the function) or the
\* value returned.  n = len(embeddings); raw = what eigvalsh returns;
\* sim_fails / eig_fails: cosine_similarity / eigvalsh raises.
estimate_num_speakers(n, max_speakers, raw, sim_fails, eig_fails) ==
    IF n < 2 THEN [raised |-> FALSE, value |-> 1]
    ELSE IF sim_fails THEN [raised |-> TRUE, value |-> 0]
    ELSE IF eig_fails THEN [raised |-> FALSE, value |-> 2]
    ELSE LET eigenvalues == Reverse(SortAsc(raw))
             m == Min(max_speakers, Len(eigenvalues) - 1)
             gaps == [i \in 1..(m - 1) |-> GapAt(eigenvalues, i)]
         IN  IF gaps # <<>>
             THEN [raised |-> FALSE, value |-> Clamp(argmax(gaps) + 1, m)]
             ELSE [raised |-> FALSE, value |-> 2]

\* library calls made by estimate_num_speakers, in order
estimate_calls(n, sim_fails) ==
    <<Call("estimate_num_speakers", 0)>> \o
    (IF n < 2 THEN <<>>
     ELSE IF sim_fails THEN <<Call("cosine_similarity", 0)>>
     ELSE <<Call("cosine_similarity", 0), Call("eigvalsh", 0)>>)

\* ascending sequences of length n over EigSet (eigvalsh returns ascending order)
AscSeqs(n) == {s \in [1..n -> EigSet] : \A i \in 1..(n - 1) : s[i] <= s[i + 1]}

NoEstimate ==
    [called |-> FALSE, n |-> 0, max_speakers |-> 0, raw |-> <<>>,
     sim_fails |-> FALSE, eig_fails |-> FALSE,
     result |-> [raised |-> FALSE, value |-> 0]]

EstimateRecord(n, max_speakers, raw, sim_fails, eig_fails) ==
    [called |-> TRUE, n |-> n, max_speakers |-> max_speakers, raw |-> raw,
     sim_fails |-> sim_fails, eig_fails |-> eig_fails,
     result |-> estimate_num_speakers(n, max_speakers, raw, sim_fails, eig_fails)]

\* the failure flags that matter for n embeddings (none when n < 2)
FailureFlags(n) ==
    IF n < 2 THEN {<<FALSE, FALSE>>}
    ELSE {<<FALSE, FALSE>>, <<TRUE, FALSE>>, <<FALSE, TRUE>>}

----------------------------------------------------------------------------
(* diarize_speechbrain: the windowing loop *)

\* the stop value of range(0, total_samples - window_samples + 1, hop_samples)
range_stop_off_by_one(total) == total - window_samples
range_stop(total) == total - window_samples + 1

\* waveform lengths: whole hops, one sample more, one sample short of the next hop
TotalSamplesSet ==
    {q * hop_samples + r : q \in 0..MaxHops, r \in {0, 1, hop_samples - 1}}

\* --num-speakers: absent (None, the empty tuple) or a positive count
NumSpeakersArgs == {<<>>} \cup {<<k>> : k \in 1..MaxNumSpeakersArg}

Init ==
    /\ pc = "window"
    /\ total_samples \in TotalSamplesSet
    /\ num_speakers_arg \in NumSpeakersArgs
    /\ start_sample = 0
    /\ embeddings = <<>>
    /\ timestamps = <<>>
    /\ num_speakers = num_speakers_arg
    /\ labels = <<>>
    /\ segments = <<>>
    /\ raised = NoException
    /\ calls = <<>>
    /\ est = NoEstimate
    /\ exit_code = -1
    /\ stdout = <<>>

\* one iteration of the loop body: the window is embedded and time-stamped
WindowStep ==
    /\ pc = "window"
    /\ start_sample < range_stop(total_samples)
    /\ LET end_sample == start_sample + window_samples
       IN  /\ embeddings' = Append(embeddings, embed(start_sample, end_sample))
           /\ timestamps' = Append(timestamps,
                                   <<sample_time(start_sample), sample_time(end_sample)>>)
    /\ start_sample' = start_sample + hop_samples
    /\ UNCHANGED <<pc, total_samples, num_speakers_arg, num_speakers, labels,
                   segments, raised, calls, est, exit_code, stdout>>

\* the feature extractor or the embedding model raises inside the loop
EmbeddingRaises ==
    /\ pc = "window"
    /\ start_sample < range_stop(total_samples)
    /\ raised' = [type |-> "EmbeddingError", context |-> ""]
    /\ pc' = "raised"
    /\ UNCHANGED <<total_samples, num_speakers_arg, start_sample, embeddings,
                   timestamps, num_speakers, labels, segments, calls, est,
                   exit_code, stdout>>

\* the loop is exhausted with no embedding: "if not embeddings: return []"
ReturnEmpty ==
    /\ pc = "window"
    /\ ~(start_sample < range_stop(total_samples))
    /\ embeddings = <<>>
    /\ segments' = <<>>
    /\ pc' = "returned"
    /\ UNCHANGED <<total_samples, num_speakers_arg, start_sample, embeddings,
                   timestamps, num_speakers, labels, raised, calls, est,
                   exit_code, stdout>>

\* the loop is exhausted with embeddings; a caller-supplied count is kept
KeepNumSpeakers ==
    /\ pc = "window"
    /\ ~(start_sample < range_stop(total_samples))
    /\ embeddings # <<>>
    /\ num_speakers # <<>>
    /\ pc' = "cluster"
    /\ UNCHANGED <<total_samples, num_speakers_arg, start_sample, embeddings,
                   timestamps, num_speakers, labels, segments, raised, calls,
                   est, exit_code, stdout>>

\* the loop is exhausted with embeddings and num_speakers is None:
\* num_speakers = estimate_num_speakers(embeddings, max_speakers=8)
Estimate ==
    /\ pc = "window"
    /\ ~(start_sample < range_stop(total_samples))
    /\ embeddings # <<>>
    /\ num_speakers = <<>>
    /\ \E raw \in AscSeqs(Len(embeddings)), f \in FailureFlags(Len(embeddings)) :
          LET e == EstimateRecord(Len(embeddings), default_max_speakers, raw, f[1], f[2])
          IN  /\ est' = e
              /\ calls' = calls \o estimate_calls(Len(embeddings), f[1])
              /\ IF e.result.raised
                 THEN /\ raised' = [type |-> "SimilarityError", context |-> ""]
                      /\ pc' = "raised"
                      /\ UNCHANGED num_speakers
                 ELSE /\ num_speakers' = <<e.result.value>>
                      /\ pc' = "cluster"
                      /\ UNCHANGED raised
    /\ UNCHANGED <<total_samples, num_speakers_arg, start_sample, embeddings,
                   timestamps, labels, segments, exit_code, stdout>>

----------------------------------------------------------------------------
(* diarize_speechbrain: clustering and merging *)

\* what fit_predict returns: one label per embedding, each in [0, k); both
\* scikit-learn strategies raise when asked for more clusters than samples
LabelSeqs(n, k) == IF k > n THEN {} ELSE [1..n -> 0..(k - 1)]

\* num_speakers == 1: labels = np.zeros(len(embeddings)); then merge and return
ClusterSingle ==
    /\ pc = "cluster"
    /\ num_speakers[1] = 1
    /\ labels' = [i \in 1..Len(embeddings) |-> 0]
    /\ segments' = merge_segments(timestamps, labels')
    /\ pc' = "returned"
    /\ UNCHANGED <<total_samples, num_speakers_arg, start_sample, embeddings,
                   timestamps, num_speakers, raised, calls, est, exit_code, stdout>>

\* SpectralClustering(n_clusters=num_speakers).fit_predict succeeds
SpectralSucceeds ==
    /\ pc = "cluster"
    /\ num_speakers[1] # 1
    /\ \E l \in LabelSeqs(Len(embeddings), num_speakers[1]) :
          /\ labels' = l
          /\ segments' = merge_segments(timestamps, l)
    /\ calls' = calls \o <<Call("SpectralClustering", num_speakers[1])>>
    /\ pc' = "returned"
    /\ UNCHANGED <<total_samples, num_speakers_arg, start_sample, embeddings,
                   timestamps, num_speakers, raised, est, exit_code, stdout>>

\* spectral clustering raises; AgglomerativeClustering.fit_predict succeeds
AgglomerativeSucceeds ==
    /\ pc = "cluster"
    /\ num_speakers[1] # 1
    /\ \E l \in LabelSeqs(Len(embeddings), num_speakers[1]) :
          /\ labels' = l
          /\ segments' = merge_segments(timestamps, l)
    /\ calls' = calls \o <<Call("SpectralClustering", num_speakers[1]),
                           Call("AgglomerativeClustering", num_speakers[1])>>
    /\ pc' = "returned"
    /\ UNCHANGED <<total_samples, num_speakers_arg, start_sample, embeddings,
                   timestamps, num_speakers, raised, est, exit_code, stdout>>

\* both strategies raise: the second exception leaves the except block as it
\* is (Python records the first one as its __context__)
BothStrategiesRaise ==
    /\ pc = "cluster"
    /\ num_speakers[1] # 1
    /\ calls' = calls \o <<Call("SpectralClustering", num_speakers[1]),
                           Call("AgglomerativeClustering", num_speakers[1])>>
    /\ raised' = [type |-> "AgglomerativeError", context |-> "SpectralError"]
    /\ pc' = "raised"
    /\ UNCHANGED <<total_samples, num_speakers_arg, start_sample, embeddings,
                   timestamps, num_speakers, labels, segments, est, exit_code, stdout>>

----------------------------------------------------------------------------
(* main *)

\* segments is a list, not an error dict: print(json.dumps(segments))
MainPrintsSegments ==
    /\ pc = "returned"
    /\ stdout' = <<[json |-> "segments", body |-> segments]>>
    /\ exit_code' = 0
    /\ pc' = "exit"
    /\ UNCHANGED <<total_samples, num_speakers_arg, start_sample, embeddings,
                   timestamps, num_speakers, labels, segments, raised, calls, est>>

\* except Exception as e: print(json.dumps({"error": str(e)})); sys.exit(1)
MainPrintsError ==
    /\ pc = "raised"
    /\ stdout' = <<[json |-> "error", body |-> raised.type]>>
    /\ exit_code' = 1
    /\ pc' = "exit"
    /\ UNCHANGED <<total_samples, num_speakers_arg, start_sample, embeddings,
                   timestamps, num_speakers, labels, segments, raised, calls, est>>

Next ==
    \/ WindowStep
    \/ EmbeddingRaises
    \/ ReturnEmpty
    \/ KeepNumSpeakers
    \/ Estimate
    \/ ClusterSingle
    \/ SpectralSucceeds
    \/ AgglomerativeSucceeds
    \/ BothStrategiesRaise
    \/ MainPrintsSegments
    \/ MainPrintsError

Spec == Init /\ [][Next]_vars

----------------------------------------------------------------------------
(* estimate_num_speakers called on its own, over every input of the bounds *)

InitEstimate ==
    /\ pc = "estimate_call"
    /\ \E n \in 0..MaxEmbeddings, ms \in -1..MaxMaxSpeakers :
          \E raw \in AscSeqs(n), f \in FailureFlags(n) :
             est = [called |-> FALSE, n |-> n, max_speakers |-> ms, raw |-> raw,
                    sim_fails |-> f[1], eig_fails |-> f[2],
                    result |-> [raised |-> FALSE, value |-> 0]]
    /\ total_samples = 0
    /\ num_speakers_arg = <<>>
    /\ start_sample = 0
    /\ embeddings = <<>>
    /\ timestamps = <<>>
    /\ num_speakers = <<>>
    /\ labels = <<>>
    /\ segments = <<>>
    /\ raised = NoException
    /\ calls = <<>>
    /\ exit_code = -1
    /\ stdout = <<>>

EstimateCall ==
    /\ pc = "estimate_call"
    /\ est' = EstimateRecord(est.n, est.max_speakers, est.raw, est.sim_fails, est.eig_fails)
    /\ calls' = estimate_calls(est.n, est.sim_fails)
    /\ pc' = "estimate_done"
    /\ UNCHANGED <<total_samples, num_speakers_arg, start_sample, embeddings,
                   timestamps, num_speakers, labels, segments, raised,
                   exit_code, stdout>>

NextEstimate == EstimateCall

SpecEstimate == InitEstimate /\ [][NextEstimate]_vars

----------------------------------------------------------------------------
(* Properties *)

\* diarize_speechbrain has returned a segment list (main may have printed it)
Finished == pc = "returned" \/ (pc = "exit" /\ exit_code = 0)

\* the windowing loop ran to its end (no exception left it)
LoopDone == pc # "window" /\ raised.type # "EmbeddingError"

ConsecutiveSegments == 1..(Len(segments) - 1)

C3_ShortInputIsAFailure ==
    (total_samples < window_samples /\ pc \in {"returned", "raised", "exit"}) =>
        /\ raised # NoException
        /\ pc = "exit" => (exit_code # 0 /\ stdout[1].json = "error")

\* the clustering calls made, in order
ClusterCalls ==
    SelectSeq(calls, LAMBDA c : c.name \in {"SpectralClustering", "AgglomerativeClustering"})

\* clustering was attempted and is over
ClusteringOver ==
    /\ pc \in {"returned", "raised", "exit"}
    /\ embeddings # <<>>
    /\ num_speakers # <<>>
    /\ num_speakers[1] # 1
    /\ raised.type \notin {"EmbeddingError", "SimilarityError"}

\* C5 (as claimed): for k # 1 spectral clustering runs first; if it raises,
\* agglomerative clustering runs next with the same k and its labels (one per
\* embedding, each in [0, k)) are used; an error reaches the caller only when
\* both fail, and then as a ClusteringFailure carrying its cause; if spectral
\* clustering succeeds, agglomerative clustering is not invoked.
C5_FallbackAndClusteringFailure ==
    ClusteringOver =>
        LET k == num_speakers[1]
        IN  /\ \/ ClusterCalls = <<Call("SpectralClustering", k)>>
               \/ ClusterCalls = <<Call("SpectralClustering", k),
                                   Call("AgglomerativeClustering", k)>>
            /\ raised = NoException =>
                  /\ Len(labels) = Len(embeddings)
                  /\ \A i \in 1..Len(labels) : labels[i] \in 0..(k - 1)
            /\ raised # NoException =>
                  /\ Len(ClusterCalls) = 2
                  /\ raised.type = "ClusteringFailure"
                  /\ raised.context # ""

\* C6 (as claimed): with exactly one embedding, whatever the caller supplied,
\* the speaker count used is 1, the eigen-gap estimation is not run, no
\* clustering strategy is invoked and the output is the one segment spanning
\* the window.
C6_SingleWindowForcesOneSpeaker ==
    (LoopDone /\ Len(embeddings) = 1 /\ pc \in {"returned", "raised", "exit"}) =>
        /\ num_speakers = <<1>>
        /\ \A i \in 1..Len(calls) : calls[i].name = "estimate_num_speakers"
        /\ raised = NoException
        /\ segments = <<[start |-> 0, end |-> window_size_ms,
                         speaker |-> <<"SPEAKER_", 0, 0>>]>>

\* run starts and, for a run start i, the last window of its run
RunStarts == {i \in 1..Len(labels) : i = 1 \/ labels[i] # labels[i - 1]}
RunEnd(i) ==
    CHOOSE e \in i..Len(labels) :
        /\ \A x \in i..e : labels[x] = labels[i]
        /\ e = Len(labels) \/ labels[e + 1] # labels[i]
RunIndex(i) == Cardinality({r \in RunStarts : r <= i})

\* C7: for a non-empty window sequence merge_segments returns one segment per
\* maximal run of equal labels, in run order, from the start of the run's
\* first window to the end of its last window, named after the run's label;
\* so the output is not empty, and windows (0,1.5),(0.75,2.25),(1.5,3.0) with
\* labels (0,0,1) give {0.0,2.25,SPEAKER_00},{1.5,3.0,SPEAKER_01}.
C7_OneSegmentPerRun ==
    (Finished /\ timestamps # <<>>) =>
        /\ segments # <<>>
        /\ Len(segments) = Cardinality(RunStarts)
        /\ \A i \in RunStarts :
              LET seg == segments[RunIndex(i)]
              IN  /\ seg.start * 10 = timestamps[i][1]
                  /\ seg.end * 10 = timestamps[RunEnd(i)][2]
                  /\ seg.speaker = <<"SPEAKER_", labels[i] \div 10, labels[i] % 10>>
        /\ (timestamps = <<(<<0, 15000>>), (<<7500, 22500>>), (<<15000, 30000>>)>>
            /\ labels = <<0, 0, 1>>) =>
              segments = <<[start |-> 0, end |-> 2250, speaker |-> <<"SPEAKER_", 0, 0>>],
                           [start |-> 1500, end |-> 3000, speaker |-> <<"SPEAKER_", 0, 1>>]>>

\* the scenario of the claim has been merged
C7_Witness ==
    /\ pc = "returned"
    /\ timestamps = <<(<<0, 15000>>), (<<7500, 22500>>), (<<15000, 30000>>)>>
    /\ labels = <<0, 0, 1>>
    /\ Len(segments) = 2

\* C8: no two adjacent output segments carry the same speaker identifier.
C8_AdjacentSpeakersDiffer ==
    Finished =>
        \A j \in ConsecutiveSegments : segments[j].speaker # segments[j + 1].speaker

\* a label came back after another speaker: three segments, first and third alike
C8_Witness ==
    /\ pc = "returned"
    /\ Len(segments) >= 3
    /\ segments[1].speaker = segments[3].speaker

\* the i of the windows that fit: i * H + W <= N
FittingWindows ==
    {i \in 0..(total_samples \div hop_samples) :
        i * hop_samples + window_samples <= total_samples}

\* timestamps[i+1] and embeddings[i+1] are those of window (i*H, i*H + W)
WindowAt(i) ==
    /\ timestamps[i + 1][1] * sample_rate = i * hop_samples * 10000
    /\ timestamps[i + 1][2] * sample_rate = (i * hop_samples + window_samples) * 10000
    /\ embeddings[i + 1].from = i * hop_samples
    /\ embeddings[i + 1].to = i * hop_samples + window_samples

\* C9: the loop produces exactly the windows (i*H, i*H + W), i = 0, 1, ...
\* while i*H + W <= N, in increasing i, a timestamp and an embedding per
\* window at the same index; none exactly when N < W; start times strictly
\* increase.
C9_WindowsOfTheLoop ==
    /\ Len(timestamps) = Len(embeddings)
    /\ \A i \in 0..(Len(timestamps) - 1) : i \in FittingWindows /\ WindowAt(i)
    /\ LoopDone =>
          /\ Len(timestamps) = Cardinality(FittingWindows)
          /\ (timestamps = <<>>) <=> (total_samples < window_samples)
          /\ \A i \in 1..(Len(timestamps) - 1) :
                timestamps[i][1] < timestamps[i + 1][1]

\* the loop ended with the last window ending on the last sample
C9_Witness ==
    /\ LoopDone
    /\ Len(timestamps) >= 3
    /\ total_samples = (Len(timestamps) - 1) * hop_samples + window_samples

----------------------------------------------------------------------------
(* Properties of estimate_num_speakers, checked under SpecEstimate *)

EstimateDone == pc = "estimate_done"

\* m = min(max_speakers, n - 1)
EstM == IF est.max_speakers < est.n - 1 THEN est.max_speakers ELSE est.n - 1

\* C2 (as claimed): with n >= 2 embeddings the count returned is at least 2
\* and at most min(max_speakers, n - 1).
C2_BetweenTwoAndM ==
    (EstimateDone /\ est.n >= 2 /\ ~est.result.raised) =>
        /\ est.result.value >= 2
        /\ est.result.value <= EstM

\* C2 (amended): with n >= 2 embeddings the count returned is at least 2 and
\* at most max(2, min(max_speakers, n - 1)); it is exactly 2 when
\* min(max_speakers, n - 1) < 2.
C2_BetweenTwoAndMaxTwoM ==
    (EstimateDone /\ est.n >= 2 /\ ~est.result.raised) =>
        /\ est.result.value >= 2
        /\ est.result.value <= (IF EstM > 2 THEN EstM ELSE 2)
        /\ EstM < 2 => est.result.value = 2

\* two embeddings, no gap ratio computed, two speakers returned
C2_Witness ==
    /\ EstimateDone
    /\ est.n = 2
    /\ est.max_speakers >= 2
    /\ ~est.sim_fails /\ ~est.eig_fails
    /\ est.result.value = 2

\* C4 (as claimed): with n >= 2 embeddings a failure of the similarity
\* computation or of the eigendecomposition is absorbed: 2 is returned and
\* nothing is raised.
C4_FailuresFallBackToTwo ==
    (EstimateDone /\ est.n >= 2 /\ (est.sim_fails \/ est.eig_fails)) =>
        /\ ~est.result.raised
        /\ est.result.value = 2

\* lambda_i, i from 0: the (i+1)-th largest eigenvalue (raw is ascending)
Lambda(i) == est.raw[est.n - i]

\* g_j <= g_i and g_j < g_i, with g = +infinity at a non-positive eigenvalue
GapLeq(j, i) ==
    IF Lambda(i) <= 0 THEN TRUE
    ELSE IF Lambda(j) <= 0 THEN FALSE
    ELSE Lambda(j - 1) * Lambda(i) <= Lambda(i - 1) * Lambda(j)
GapLess(j, i) == ~GapLeq(i, j)

GapIndices == 1..(EstM - 1)

EstimateRan ==
    /\ EstimateDone
    /\ est.n >= 2
    /\ ~est.sim_fails /\ ~est.eig_fails
    /\ GapIndices # {}

ClampTo2M(v) ==
    LET low == IF v < EstM THEN v ELSE EstM
    IN  IF low > 2 THEN low ELSE 2

\* C10 (as claimed): when some g_i exists the count returned is (the i in
\* [1, m) that maximizes g_i) + 1, clamped to [2, m].
C10_ArgmaxPlusOne ==
    EstimateRan =>
        \E i \in GapIndices :
            /\ \A j \in GapIndices : GapLeq(j, i)
            /\ est.result.value = ClampTo2M(i + 1)

\* C10 (amended): when some g_i exists the count returned is the first i in
\* [1, m) that maximizes g_i, itself (not i + 1), clamped to [2, m]; a
\* non-positive lambda_i in range beats every finite ratio, so the first such
\* i is the one chosen.
C10_FirstArgmax ==
    EstimateRan =>
        \E i \in GapIndices :
            /\ \A j \in GapIndices : GapLeq(j, i)
            /\ \A j \in GapIndices : j < i => GapLess(j, i)
            /\ (\E j \in GapIndices : Lambda(j) <= 0) =>
                  (Lambda(i) <= 0 /\ \A j \in GapIndices : j < i => Lambda(j) > 0)
            /\ est.result.value = ClampTo2M(i)

\* the largest gap is the infinite one at i = 3, after finite gaps at 1 and 2
C10_Witness ==
    /\ EstimateRan
    /\ EstM >= 4
    /\ Lambda(1) > 0 /\ Lambda(2) > 0 /\ Lambda(3) <= 0
    /\ est.result.value = 3

====
